---- MODULE Spec2Model ----
(***************************************************************************)
(* A model of the geometric frame-computation core of linalg               *)
(* (src/linalg.h, src/linalg.cpp): rigid-transform builders, the plane and *)
(* quadratic fitters, the Frenet- and belt-frame builders and the Euler    *)
(* conversion pair.                                                        *)
(*                                                                         *)
(* Numbers.  The code computes in IEEE doubles.  The model uses three      *)
(* exact stand-ins, each chosen so that the tests the code makes can be    *)
(* decided:                                                                *)
(*   - a rational <<n, d>> (d > 0, lowest terms); d = 0 encodes the        *)
(*     non-finite doubles: <<1,0>> = +inf, <<-1,0>> = -inf, <<0,0>> = NaN; *)
(*     products and sums of doubles overflow to +-inf above MaxDouble,     *)
(*     the model's scaled-down DBL_MAX;                                    *)
(*   - a signed square root  [s |-> sign, q |-> rational]  = s * sqrt(q),  *)
(*     for the results of sqrt and normalisation, and a vector             *)
(*     [c |-> primitive integer triple, r |-> rational] = c * sqrt(r);     *)
(*   - fixed point with Scale units per 1.0 for the trigonometric results  *)
(*     (cos, sin, atan2, asin) and the matrices built from them.           *)
(***************************************************************************)
EXTENDS Integers, Sequences, FiniteSets, TLC

VARIABLES pc, op, args, ret, tpc, tcall, tframe, tret

vars == <<pc, op, args, ret, tpc, tcall, tframe, tret>>

(***************************************************************************)
(* Bounds of the model.                                                    *)
(***************************************************************************)
\* longest coordinate sequence handed to the fitters
MaxPts == 3
\* the scaled-down largest finite double (DBL_MAX)
MaxDouble == 500
\* a coordinate whose square exceeds MaxDouble
Big == 30
\* number of concurrent caller threads
NThreads == 2

(***************************************************************************)
(* Integer helpers.                                                        *)
(***************************************************************************)
Abs(n) == IF n < 0 THEN -n ELSE n

Sign(n) == IF n < 0 THEN -1 ELSE IF n > 0 THEN 1 ELSE 0

RECURSIVE Gcd(_, _)
Gcd(a, b) == IF b = 0 THEN a ELSE Gcd(b, a % b)

Gcd3(v) == Gcd(Gcd(Abs(v[1]), Abs(v[2])), Abs(v[3]))

\* floor of the square root of n >= 0, by bisection on lo..hi
RECURSIVE SqrtIn(_, _, _)
SqrtIn(n, lo, hi) ==
  IF lo >= hi THEN lo
  ELSE LET mid == (lo + hi + 1) \div 2
       IN IF mid <= n \div mid THEN SqrtIn(n, mid, hi) ELSE SqrtIn(n, lo, mid - 1)

ISqrt(n) == IF n <= 0 THEN 0 ELSE SqrtIn(n, 1, IF n < 46340 THEN n ELSE 46340)

\* square root rounded to nearest
RSqrt(n) == LET f == ISqrt(n) IN IF n - f * f > f THEN f + 1 ELSE f

(***************************************************************************)
(* Doubles as rationals.                                                   *)
(***************************************************************************)
RNorm(n, d) ==
  IF d = 0 THEN <<Sign(n), 0>>
  ELSE LET g == Gcd(Abs(n), Abs(d))
       IN <<Sign(d) * (n \div g), Abs(d) \div g>>

Rat(n) == <<n, 1>>

IsFinite(a) == a[2] # 0

IsNaN(a) == a[1] = 0 /\ a[2] = 0

RSign(a) == Sign(a[1])

RNeg(a) == <<-a[1], a[2]>>

\* cross-reduced so that intermediate products stay small
RMul(a, b) ==
  IF a[2] = 0 \/ b[2] = 0 THEN <<Sign(a[1]) * Sign(b[1]), 0>>
  ELSE LET g1 == Gcd(Abs(a[1]), b[2])
           g2 == Gcd(Abs(b[1]), a[2])
       IN IF a[1] = 0 \/ b[1] = 0 THEN <<0, 1>>
          ELSE <<(a[1] \div g1) * (b[1] \div g2), (a[2] \div g2) * (b[2] \div g1)>>

RInv(a) ==
  IF a[1] = 0 THEN (IF a[2] = 0 THEN <<0, 0>> ELSE <<1, 0>>)
  ELSE IF a[2] = 0 THEN <<0, 1>>
  ELSE <<Sign(a[1]) * a[2], Abs(a[1])>>

RDiv(a, b) == RMul(a, RInv(b))

RAdd(a, b) ==
  IF a[2] = 0 /\ b[2] = 0 THEN (IF a[1] = b[1] THEN a ELSE <<0, 0>>)
  ELSE IF a[2] = 0 THEN a
  ELSE IF b[2] = 0 THEN b
  ELSE LET g == Gcd(a[2], b[2])
       IN RNorm(a[1] * (b[2] \div g) + b[1] * (a[2] \div g), (a[2] \div g) * b[2])

RSub(a, b) == RAdd(a, RNeg(b))

RLess(a, b) == RSign(RSub(a, b)) < 0

RLeq(a, b) == RSign(RSub(a, b)) <= 0

\* the rounding of a double result: magnitudes above DBL_MAX become +-inf
Fl(a) ==
  IF IsFinite(a) /\ Abs(a[1]) > MaxDouble * a[2] THEN <<Sign(a[1]), 0>> ELSE a

FMul(a, b) == Fl(RMul(a, b))

FAdd(a, b) == Fl(RAdd(a, b))

FDiv(a, b) == Fl(RDiv(a, b))

(***************************************************************************)
(* Signed square roots  s * sqrt(q)  and vectors  c * sqrt(r).             *)
(***************************************************************************)
Sc(s, q) == [s |-> IF RSign(q) = 0 THEN 0 ELSE s, q |-> q]

ScZero == Sc(0, Rat(0))

ScOne == Sc(1, Rat(1))

\* the square of a double result: magnitudes above DBL_MAX become inf
FlSq(q) ==
  IF IsFinite(q) /\ q[1] \div q[2] >= MaxDouble * MaxDouble /\ q # Rat(MaxDouble * MaxDouble)
    THEN <<1, 0>>
  ELSE q

\* x * a for a double a: the product rounds as a double does
ScMulR(x, a) == Sc(x.s * RSign(a), FlSq(RMul(RMul(a, a), x.q)))

\* exact square root of a rational that is a perfect square
RatSqrt(a) == <<RSqrt(a[1]), RSqrt(a[2])>>

IsSquare(a) == RSqrt(a[1]) * RSqrt(a[1]) = a[1] /\ RSqrt(a[2]) * RSqrt(a[2]) = a[2]

ZeroVec == [c |-> <<0, 0, 0>>, r |-> Rat(1)]

Lcm(a, b) == (a \div Gcd(a, b)) * b

\* the vector rho * sqrt(r1 * r2), rho a triple of rationals, in canonical
\* form: c a primitive integer triple, the positive content moved under the
\* root
VCanon2(rho, r1, r2) ==
  LET L == Lcm(Lcm(rho[1][2], rho[2][2]), rho[3][2])
      m == [i \in 1..3 |-> rho[i][1] * (L \div rho[i][2])]
      g == Gcd3(m)
  IN IF g = 0 \/ RSign(r1) = 0 \/ RSign(r2) = 0 THEN ZeroVec
     ELSE [c |-> <<m[1] \div g, m[2] \div g, m[3] \div g>>,
           r |-> RMul(RMul(RMul(<<g, L>>, r1), <<g, L>>), r2)]

VCanon(rho, r) == VCanon2(rho, r, Rat(1))

VInt(v) == VCanon(<<Rat(v[1]), Rat(v[2]), Rat(v[3])>>, Rat(1))

Dot3(u, v) == u[1] * v[1] + u[2] * v[2] + u[3] * v[3]

Cross3(u, v) ==
  <<u[2] * v[3] - u[3] * v[2], u[3] * v[1] - u[1] * v[3], u[1] * v[2] - u[2] * v[1]>>

VComp(v, i) == Sc(Sign(v.c[i]), RMul(Rat(v.c[i] * v.c[i]), v.r))

VSquaredNorm(v) == RMul(Rat(Dot3(v.c, v.c)), v.r)

VIsZero(v) == v.c = <<0, 0, 0>>

VNeg(v) == [c |-> <<-v.c[1], -v.c[2], -v.c[3]>>, r |-> v.r]

VCross(a, b) ==
  LET k == Cross3(a.c, b.c) IN VCanon2(<<Rat(k[1]), Rat(k[2]), Rat(k[3])>>, a.r, b.r)

VDot(a, b) ==
  LET k == Dot3(a.c, b.c) IN Sc(Sign(k), RMul(RMul(RMul(Rat(k), a.r), Rat(k)), b.r))

\* the scalar x times the vector v
VScale(x, v) ==
  IF x.s = 0 THEN ZeroVec
  ELSE VCanon2(<<Rat(x.s * v.c[1]), Rat(x.s * v.c[2]), Rat(x.s * v.c[3])>>, x.q, v.r)

\* the rational coordinates of a vector whose root is rational
VRat(v) == LET k == RatSqrt(v.r) IN [i \in 1..3 |-> RMul(Rat(v.c[i]), k)]

\* a - b for vectors with rational coordinates
VSub(a, b) ==
  LET x == VRat(a)
      y == VRat(b)
  IN VCanon(<<RSub(x[1], y[1]), RSub(x[2], y[2]), RSub(x[3], y[3])>>, Rat(1))

\* Eigen's normalized()/normalize() (3.3 and later): a vector of squared norm
\* zero is returned as it is, any other is divided by its norm
VNormalized(v) ==
  IF RSign(VSquaredNorm(v)) > 0 THEN [c |-> v.c, r |-> RInv(Rat(Dot3(v.c, v.c)))] ELSE v

\* the vector with the three signed roots a, b, c as coordinates (their
\* ratios are rational wherever the code builds such a vector)
VOfScs(a, b, c) ==
  LET xs == <<a, b, c>>
      nz == {i \in 1..3 : xs[i].s # 0}
  IN IF nz = {} THEN ZeroVec
     ELSE LET k == CHOOSE i \in nz : \A j \in nz : i <= j
              rho == [i \in 1..3 |->
                        IF xs[i].s = 0 THEN Rat(0)
                        ELSE LET w == RatSqrt(RDiv(xs[i].q, xs[k].q))
                             IN <<xs[i].s * w[1], w[2]>>]
          IN VCanon(rho, xs[k].q)

(***************************************************************************)
(* A.colPivHouseholderQr().solve(b) for a 3x3 integer matrix A.            *)
(***************************************************************************)
Col(M, j) == <<M[1][j], M[2][j], M[3][j]>>

Det3(M) == Dot3(M[1], Cross3(M[2], M[3]))

ReplaceCol(M, j, b) == [i \in 1..3 |-> [k \in 1..3 |-> IF k = j THEN b[i] ELSE M[i][k]]]

\* the solution of a system of full rank
Cramer(M, b) == [j \in 1..3 |-> RNorm(Det3(ReplaceCol(M, j, b)), Det3(M))]

\* column pivoting: the first column of largest norm, then the first of the
\* others with the largest part orthogonal to it
Pivot1(M) ==
  CHOOSE j \in 1..3 :
    /\ \A k \in 1..3 : Dot3(Col(M, k), Col(M, k)) <= Dot3(Col(M, j), Col(M, j))
    /\ \A k \in 1..(j - 1) : Dot3(Col(M, k), Col(M, k)) < Dot3(Col(M, j), Col(M, j))

Gram(M, j, k) ==
  Dot3(Col(M, j), Col(M, j)) * Dot3(Col(M, k), Col(M, k))
    - Dot3(Col(M, j), Col(M, k)) * Dot3(Col(M, j), Col(M, k))

Pivot2(M, j1) ==
  CHOOSE j \in (1..3) \ {j1} :
    /\ \A k \in (1..3) \ {j1} : Gram(M, j1, k) <= Gram(M, j1, j)
    /\ \A k \in (1..(j - 1)) \ {j1} : Gram(M, j1, k) < Gram(M, j1, j)

\* rank-deficient system, zero pivots dropped: least squares over the pivot
\* columns, the other unknowns zero
BasicSolution(M, b) ==
  LET j1 == Pivot1(M)
      j2 == Pivot2(M, j1)
      c1 == Col(M, j1)
      c2 == Col(M, j2)
      g11 == Dot3(c1, c1)
      g12 == Dot3(c1, c2)
      g22 == Dot3(c2, c2)
      h1 == Dot3(c1, b)
      h2 == Dot3(c2, b)
      d == g11 * g22 - g12 * g12
  IN IF g11 = 0 THEN <<Rat(0), Rat(0), Rat(0)>>
     ELSE IF d = 0 THEN [j \in 1..3 |-> IF j = j1 THEN RNorm(h1, g11) ELSE Rat(0)]
     ELSE [j \in 1..3 |->
             IF j = j1 THEN RNorm(h1 * g22 - h2 * g12, d)
             ELSE IF j = j2 THEN RNorm(g11 * h2 - g12 * h1, d)
             ELSE Rat(0)]

\* a primitive null vector of a singular matrix
NullVector(M) ==
  LET cands == <<Cross3(M[1], M[2]), Cross3(M[1], M[3]), Cross3(M[2], M[3])>>
      rows == {i \in 1..3 : M[i] # <<0, 0, 0>>}
      prim(v) == LET g == Gcd3(v) IN <<v[1] \div g, v[2] \div g, v[3] \div g>>
  IN IF \E i \in 1..3 : cands[i] # <<0, 0, 0>>
       THEN prim(cands[CHOOSE i \in 1..3 :
                         cands[i] # <<0, 0, 0>>
                         /\ \A k \in 1..(i - 1) : cands[k] = <<0, 0, 0>>])
     ELSE IF rows = {} THEN <<1, 0, 0>>
     ELSE LET rw == M[CHOOSE i \in rows : \A k \in rows : i <= k]
          IN IF rw[1] # 0 \/ rw[2] # 0 THEN prim(<<rw[2], -rw[1], 0>>)
             ELSE <<1, 0, 0>>

\* how far rounding in a pivot that is zero in exact arithmetic can push the
\* solution along the null vector
PivotNoise == {-1, 0, 1}

\* the solutions solve() can return: the exact one for a regular matrix; for
\* a singular one the basic solution, shifted along the null space when the
\* rounding noise of the last pivot is taken for a pivot
SolveOutcomes(M, b) ==
  IF Det3(M) # 0 THEN {Cramer(M, b)}
  ELSE LET p == BasicSolution(M, b)
           v == NullVector(M)
           j1 == Pivot1(M)
           j2 == Pivot2(M, j1)
           \* the columns left when the pivots are exhausted
           rest == IF Gram(M, j1, j2) = 0 THEN (1..3) \ {j1} ELSE (1..3) \ {j1, j2}
           \* a column of zeros leaves an exact zero, any other leaves noise
           noisy == \E k \in rest : Col(M, k) # <<0, 0, 0>>
       IN {[j \in 1..3 |-> Fl(RAdd(p[j], Rat(l * v[j])))] :
             l \in IF noisy THEN PivotNoise ELSE {0}}

(***************************************************************************)
(* Sequences of doubles (Eigen::VectorXd).                                 *)
(***************************************************************************)
RECURSIVE SeqSum(_)
SeqSum(s) == IF s = <<>> THEN 0 ELSE Head(s) + SeqSum(Tail(s))

\* x.dot(y) over the first n entries of both
SeqDot(x, y, n) == SeqSum([i \in 1..n |-> x[i] * y[i]])

(***************************************************************************)
(* pointsToPlane, lines 33-54.                                             *)
(***************************************************************************)
\* lines 46-53: the Plane of the regression solution P = (AA, BB, DD)
PlaneOf(P) ==
  LET AA == P[1]
      BB == P[2]
      DD == P[3]
      denom == FAdd(FAdd(FMul(AA, AA), FMul(BB, BB)), Rat(1))
      C == Sc(1, FDiv(Rat(1), denom))
  IN [AA |-> AA, BB |-> BB, DD |-> DD,
      C |-> C,
      A |-> ScMulR(C, RNeg(AA)),
      B |-> ScMulR(C, RNeg(BB)),
      D |-> ScMulR(C, RNeg(DD))]

\* lines 36-41: the normal equations over sequences of one length n
NormalU(x, y, n) ==
  <<<<SeqDot(x, x, n), SeqDot(x, y, n), SeqSum(x)>>,
    <<SeqDot(x, y, n), SeqDot(y, y, n), SeqSum(y)>>,
    <<SeqSum(x), SeqSum(y), n>>>>

NormalV(x, y, z, n) == <<SeqDot(x, z, n), SeqDot(y, z, n), SeqSum(z)>>

(***************************************************************************)
(* What a call hands back.  None of the core functions has a throw         *)
(* statement; "threw" is the outcome they would need to report an error.   *)
(* "aborted" is Eigen's size assertion ending the process.                 *)
(***************************************************************************)
Returned(v, loc) == [status |-> "returned", value |-> v, local |-> loc]

Aborted == [status |-> "aborted", value |-> <<>>, local |-> <<>>]

\* values an out-of-bounds read of a coordinate buffer can yield
Indeterminate == {0, 1}

Pad(s, n, g) == [i \in 1..n |-> IF i <= Len(s) THEN s[i] ELSE g]

Max(a, b) == IF a >= b THEN a ELSE b

\* lines 33-54.  With sequences of one length the Plane of every solution
\* solve() can return.  With mismatched lengths Eigen's dot() asserts equal
\* sizes: a build with assertions aborts, a build without reads past the
\* end of the shorter buffers.
pointsToPlane(x, y, z) ==
  LET n == Len(x)
      planes(xx, yy, zz, m) ==
        {Returned(PlaneOf(P), [U |-> NormalU(xx, yy, m), P |-> P]) :
           P \in SolveOutcomes(NormalU(xx, yy, m), NormalV(xx, yy, zz, m))}
  IN IF Len(y) = n /\ Len(z) = n THEN planes(x, y, z, n)
     ELSE {Aborted} \cup
          UNION {planes(x, Pad(y, n, g), Pad(z, n, g), n) : g \in Indeterminate}

(***************************************************************************)
(* poly, lines 56-64.                                                      *)
(***************************************************************************)
PolyMatrix(x0, x1, x2) == <<<<x0 * x0, x0, 1>>, <<x1 * x1, x1, 1>>, <<x2 * x2, x2, 1>>>>

poly(x0, x1, x2, y0, y1, y2) ==
  {Returned(c, [A |-> PolyMatrix(x0, x1, x2)]) :
     c \in SolveOutcomes(PolyMatrix(x0, x1, x2), <<y0, y1, y2>>)}

(***************************************************************************)
(* 4x4 matrices of signed roots (the poses), rows first.                   *)
(***************************************************************************)
ScIdentity == [i \in 1..4 |-> [j \in 1..4 |-> IF i = j THEN ScOne ELSE ScZero]]

\* M.block<3,1>(0, j) = v
SetColumn(M, j, v) ==
  [i \in 1..4 |-> [k \in 1..4 |-> IF k = j /\ i <= 3 THEN VComp(v, i) ELSE M[i][k]]]

(***************************************************************************)
(* Frene::Frene, lines 67-78.                                              *)
(***************************************************************************)
Frene(t, b, n, p) ==
  [t |-> t, b |-> b, n |-> n, p |-> p,
   transf |-> SetColumn(SetColumn(SetColumn(SetColumn(ScIdentity, 1, t), 2, b), 3, n), 4, p)]

(***************************************************************************)
(* getFreneByPoly, lines 80-95.                                            *)
(***************************************************************************)
\* lines 85-86
FreneSlope(coef, p0) == FAdd(FMul(FMul(Rat(2), coef[1]), Rat(p0[1])), coef[2])

\* lines 87-89
FreneTanu(dy_dt) ==
  LET tanu(v) == IF VComp(v, 1).s < 0 THEN VNeg(v) ELSE v
  IN tanu(VNormalized(VCanon(<<Rat(1), dy_dt, Rat(0)>>, Rat(1))))

\* line 91
FreneTanv(p0, v1) ==
  VNormalized(VInt(<<v1[1] - p0[1], v1[2] - p0[2], v1[3] - p0[3]>>))

\* line 92
FreneNormal(tanu, tanv) == VNormalized(VCross(tanu, tanv))

\* line 93
FreneBinormal(n, tanu) == VNormalized(VCross(n, tanu))

FreneWithNormal(coef, p0, tanu, tanv, n) ==
  Returned(Frene(tanu, FreneBinormal(n, tanu), n, VInt(p0)),
           [tanu |-> tanu, tanv |-> tanv, coef |-> coef])

FreneWithTangents(coef, p0, tanu, tanv) ==
  FreneWithNormal(coef, p0, tanu, tanv, FreneNormal(tanu, tanv))

FreneOfCoef(coef, p0, v1) ==
  FreneWithTangents(coef, p0, FreneTanu(FreneSlope(coef, p0)), FreneTanv(p0, v1))

getFreneByPoly(p0, u1, u2, v1) ==
  {FreneOfCoef(c.value, p0, v1) : c \in poly(u1[1], p0[1], u2[1], u1[2], p0[2], u2[2])}

(***************************************************************************)
(* Fixed point: Scale units per 1.0.  Angles are whole degrees on a grid   *)
(* of 15 degrees, where the sines are tabulated.                           *)
(***************************************************************************)
Scale == 20000

\* M_PI in units of 1/Scale
PiFx == 62832

\* sin(0), sin(15), ..., sin(90) in units of 1/Scale, rounded to nearest
SinTable == <<0, 5176, 10000, 14142, 17321, 19319, 20000>>

GridAngles == {15 * k : k \in -11..12}

\* an angle in degrees brought into 0..359
Mod360(a) == ((a % 360) + 360) % 360

\* the angle in (-180, 180]
Wrap180(a) == LET m == Mod360(a) IN IF m > 180 THEN m - 360 ELSE m

SinFx(a) ==
  LET m == Mod360(a)
  IN IF m <= 90 THEN SinTable[m \div 15 + 1]
     ELSE IF m <= 180 THEN SinTable[(180 - m) \div 15 + 1]
     ELSE IF m <= 270 THEN -SinTable[(m - 180) \div 15 + 1]
     ELSE -SinTable[(360 - m) \div 15 + 1]

CosFx(a) == SinFx(a + 90)

\* n / d rounded to nearest, halves away from zero
RoundDiv(n, d) == Sign(n) * ((2 * Abs(n) + d) \div (2 * d))

MulFx(a, b) == RoundDiv(a * b, Scale)

\* the signed root x (|x| <= 1) in units of 1/Scale
Fix(x) ==
  IF ~IsFinite(x.q) \/ x.s = 0 THEN 0
  ELSE LET k == (Max(x.q[1], x.q[2]) \div 50000) + 1
           n == x.q[1] \div k
           d == Max(1, x.q[2] \div k)
           q1 == (Scale * n) \div d
           r1 == (Scale * n) % d
       IN x.s * RSqrt(Scale * q1 + (Scale * r1) \div d)

\* the grid angle where the score f is largest; of several the one of least
\* magnitude, the positive one of a pair
ArgMax(f) ==
  LET best == {a \in DOMAIN f : \A b \in DOMAIN f : f[b] <= f[a]}
  IN CHOOSE a \in best : \A b \in best : Abs(a) < Abs(b) \/ (Abs(a) = Abs(b) /\ a >= b)

\* std::atan2(y, x) in degrees, to the nearest grid angle: the grid direction
\* closest to (x, y); atan2(0, 0) = 0
Atan2Deg(y, x) ==
  IF x = 0 /\ y = 0 THEN 0
  ELSE ArgMax([a \in GridAngles |-> x * CosFx(a) + y * SinFx(a)])

\* std::asin(v) in degrees, to the nearest grid angle in -90..90
AsinDeg(v) == ArgMax([a \in {15 * k : k \in -6..6} |-> -Abs(SinFx(a) - v)])

(***************************************************************************)
(* The Euler extraction of getBeltFrame, lines 160-162, on a rotation      *)
(* block R in fixed point (rows first, R[i+1][j+1] is the code's R(i, j)).   *)
(***************************************************************************)
\* atan2 with its arguments exchanged, for contrast with the code's line 160
EulerASwapped(R) == Atan2Deg(R[1][1], R[2][1])

EulerA(R) == Atan2Deg(R[2][1], R[1][1])

EulerB(R) == AsinDeg(-R[3][1])

EulerC(R) == Atan2Deg(R[3][2], R[3][3])

\* the rotation block of a pose in fixed point
FixBlock(T) == [i \in 1..3 |-> [j \in 1..3 |-> Fix(T[i][j])]]

(***************************************************************************)
(* getBeltFrame, lines 137-168.                                            *)
(***************************************************************************)
UnitX == VInt(<<1, 0, 0>>)

UnitY == VInt(<<0, 1, 0>>)

\* a choice that ignores the normal, for contrast with the code's
HelperAlwaysX(n) == TRUE

\* line 146: std::abs(n.x()) < 0.9
HelperIsX(n) == RLess(VComp(n, 1).q, <<81, 100>>)

HelperOf(n) == IF HelperIsX(n) THEN UnitX ELSE UnitY

\* Frame is Eigen::Matrix<double, 6, 1> (linalg.h, line 10): the value the
\* declared return type carries to the caller is the six numbers of
\* out.frame; it has no member to hold out.transform
AsFrame(out) == [frame |-> out.frame]

\* lines 143-144
BeltNormal(pl) == VNormalized(VOfScs(pl.A, pl.B, pl.C))

\* line 147, before normalisation
BeltProjection(helper, n) == VSub(helper, VScale(VDot(helper, n), n))

\* lines 148-149
BeltFirstTangent(proj) == VNeg(VNormalized(proj))

\* line 151
BeltBinormal(n, t1) == VNormalized(VCross(n, t1))

\* line 152
BeltTangent(b, n) == VCross(b, n)

\* lines 154-158
BeltPose(t, b, n, o) ==
  SetColumn(SetColumn(SetColumn(SetColumn(ScIdentity, 1, t), 2, b), 3, n), 4, VInt(o))

\* lines 160-166, R the rotation block of T in fixed point
BeltOut(o, T, R) ==
  [frame |-> <<o[1], o[2], o[3], EulerA(R), EulerB(R), EulerC(R)>>, transform |-> T]

BeltReturn(pl, n, helper, proj, t, b, out) ==
  Returned(AsFrame(out),
           [pl |-> pl, n |-> n, helper |-> helper, proj |-> proj, t |-> t, b |-> b,
            out |-> out])

\* the body, each local computed once and handed on
BeltWithPose(o, pl, n, helper, proj, t, b, T) ==
  BeltReturn(pl, n, helper, proj, t, b, BeltOut(o, T, FixBlock(T)))

BeltWithBinormal(o, pl, n, helper, proj, b) ==
  BeltWithPose(o, pl, n, helper, proj, BeltTangent(b, n), b,
               BeltPose(BeltTangent(b, n), b, n, o))

BeltWithProjection(o, pl, n, helper, proj) ==
  BeltWithBinormal(o, pl, n, helper, proj, BeltBinormal(n, BeltFirstTangent(proj)))

BeltWithNormal(o, pl, n) ==
  BeltWithProjection(o, pl, n, HelperOf(n), BeltProjection(HelperOf(n), n))

getBeltFrame(o, x, y, z) ==
  {IF r.status = "returned" THEN BeltWithNormal(o, r.value, BeltNormal(r.value)) ELSE r :
     r \in pointsToPlane(x, y, z)}

(***************************************************************************)
(* trMatrix4x4 and rotMatrix4x4, lines 13-31: 4x4 matrices in fixed point. *)
(***************************************************************************)
Identity4 == [i \in 1..4 |-> [j \in 1..4 |-> IF i = j THEN Scale ELSE 0]]

Set(M, i, j, v) == [M EXCEPT ![i + 1][j + 1] = v]

trMatrix4x4(delta) ==
  Returned([i \in 1..4 |-> [j \in 1..4 |->
              IF j = 4 /\ i <= 3 THEN delta[i] ELSE Identity4[i][j]]], <<>>)

\* line 28: 1e-4 in units of 1/Scale
EPS == 2

\* std::cos and std::sin of angleDeg * M_PI / 180 (lines 21-22).  The
\* argument is a rounded multiple of pi, so where the exact value is zero
\* the computed one is a tiny non-zero of sign e, here one unit; sin(0.0)
\* alone is exactly zero
ComputedSin(a, e) == IF SinFx(a) = 0 /\ a # 0 THEN e ELSE SinFx(a)

ComputedCos(a, e) == IF CosFx(a) = 0 THEN e ELSE CosFx(a)

TrigNoise == {-1, 1}

\* a switch that folds the case of the axis character, for contrast with the
\* code's
RotSwitchFoldingCase(c, s, axis) ==
  IF axis \in {"x", "X"}
    THEN Set(Set(Set(Set(Identity4, 1, 1, c), 1, 2, -s), 2, 1, s), 2, 2, c)
  ELSE IF axis \in {"y", "Y"}
    THEN Set(Set(Set(Set(Identity4, 0, 0, c), 0, 2, s), 2, 0, -s), 2, 2, c)
  ELSE IF axis \in {"z", "Z"}
    THEN Set(Set(Set(Set(Identity4, 0, 0, c), 0, 1, -s), 1, 0, s), 1, 1, c)
  ELSE Identity4

\* lines 23-27: the switch; any other axis character matches no case
RotSwitch(c, s, axis) ==
  IF axis = "x" THEN Set(Set(Set(Set(Identity4, 1, 1, c), 1, 2, -s), 2, 1, s), 2, 2, c)
  ELSE IF axis = "y" THEN Set(Set(Set(Set(Identity4, 0, 0, c), 0, 2, s), 2, 0, -s), 2, 2, c)
  ELSE IF axis = "z" THEN Set(Set(Set(Set(Identity4, 0, 0, c), 0, 1, -s), 1, 0, s), 1, 1, c)
  ELSE Identity4

\* a lambda that snaps nothing, for contrast with the code's
SnapNothing(v) == v

\* line 29: the snapping lambda
Snap(v) == IF Abs(v) <= EPS THEN 0 ELSE v

SnapAll(M) == [i \in 1..4 |-> [j \in 1..4 |-> Snap(M[i][j])]]

rotMatrix4x4(angleDeg, axis) ==
  {Returned(SnapAll(RotSwitch(ComputedCos(angleDeg, e), ComputedSin(angleDeg, e), axis)),
            [raw |-> RotSwitch(ComputedCos(angleDeg, e), ComputedSin(angleDeg, e), axis)]) :
     e \in TrigNoise}

\* the product of two 4x4 matrices in fixed point, in units of 1/Scale^2
Product4(M, N) ==
  [i \in 1..4 |-> [j \in 1..4 |->
     M[i][1] * N[1][j] + M[i][2] * N[2][j] + M[i][3] * N[3][j] + M[i][4] * N[4][j]]]

(***************************************************************************)
(* rot2euler and euler2rot: declared in linalg.h (lines 26-30, 40-41),     *)
(* defined nowhere in the sources; modelled from the specification's 4.7   *)
(* with the angle convention of getBeltFrame's extraction (Z-Y-X).         *)
(***************************************************************************)
\* an angle argument or result: degrees, or radians in units of 1/Scale
ToUnit(deg, is_deg) == IF is_deg THEN deg ELSE RoundDiv(deg * PiFx, 180)

FromUnit(a, is_deg) == IF is_deg THEN a ELSE RoundDiv(a * 180, PiFx)

\* R = Rz(A) * Ry(B) * Rx(C)
euler2rot(A, B, C, is_deg) ==
  LET a == FromUnit(A, is_deg)
      b == FromUnit(B, is_deg)
      c == FromUnit(C, is_deg)
      cA == CosFx(a)
      sA == SinFx(a)
      cB == CosFx(b)
      sB == SinFx(b)
      cC == CosFx(c)
      sC == SinFx(c)
  IN <<<<MulFx(cA, cB), MulFx(MulFx(cA, sB), sC) - MulFx(sA, cC),
         MulFx(MulFx(cA, sB), cC) + MulFx(sA, sC)>>,
       <<MulFx(sA, cB), MulFx(MulFx(sA, sB), sC) + MulFx(cA, cC),
         MulFx(MulFx(sA, sB), cC) - MulFx(cA, sC)>>,
       <<-sB, MulFx(cB, sC), MulFx(cB, cC)>>>>

Negated(R) == [i \in 1..3 |-> [j \in 1..3 |-> -R[i][j]]]

GimbalLocked(R) == Abs(R[3][1]) >= Scale

\* both (A, B, C) solutions, or the named degenerate case
rot2euler(R, is_deg) ==
  IF GimbalLocked(R)
    THEN [kind |-> "gimbal_lock",
          B |-> ToUnit(EulerB(R), is_deg),
          AminusC |-> ToUnit(Atan2Deg(-R[1][2], R[2][2]), is_deg)]
  ELSE [kind |-> "two_solutions",
        A1 |-> ToUnit(EulerA(R), is_deg),
        B1 |-> ToUnit(EulerB(R), is_deg),
        C1 |-> ToUnit(EulerC(R), is_deg),
        A2 |-> ToUnit(EulerA(Negated(R)), is_deg),
        B2 |-> ToUnit(Wrap180(180 - EulerB(R)), is_deg),
        C2 |-> ToUnit(EulerC(Negated(R)), is_deg)]

(***************************************************************************)
(* The inputs the callers draw.                                            *)
(***************************************************************************)
Points ==
  <<<<0, 0, 0>>, <<1, 0, 0>>, <<0, 1, 0>>, <<1, 1, 1>>, <<2, 0, 0>>, <<1, 0, 3>>,
    <<0, 1, Big>>>>

\* index sequences in non-decreasing order: every multiset of points once
PointLists ==
  UNION {{s \in [1..n -> 1..Len(Points)] : \A i \in 1..(n - 1) : s[i] <= s[i + 1]} :
           n \in 0..MaxPts}

Coord(s, k) == [i \in 1..Len(s) |-> Points[s[i]][k]]

DropLast(s) == IF s = <<>> THEN s ELSE SubSeq(s, 1, Len(s) - 1)

\* the three coordinate sequences; short names the one that lost its last entry
CoordSeqs(s, short) ==
  [x |-> IF short = "x" THEN DropLast(Coord(s, 1)) ELSE Coord(s, 1),
   y |-> IF short = "y" THEN DropLast(Coord(s, 2)) ELSE Coord(s, 2),
   z |-> IF short = "z" THEN DropLast(Coord(s, 3)) ELSE Coord(s, 3)]

PlaneInputs ==
  {CoordSeqs(s, short) : s \in PointLists, short \in {"none"}} \cup
  {CoordSeqs(s, short) : s \in PointLists \ {<<>>}, short \in {"x", "y", "z"}}

Origins == {<<1, 2, 3>>, <<0, 0, 0>>}

Deltas == {<<a, b, c>> : a \in {0, 220}, b \in {0, -940}, c \in {0, 20000}}

RotAngles == {15 * k : k \in -24..24}

Axes == {"x", "y", "z", "Z", "w"}

PolyXs == {0, 1, 2}

PolyYs == {0, 1, 4}

FreneP0 == {<<1, 1, 0>>, <<0, 0, 0>>}

FreneU == {<<0, 0, 0>>, <<2, 4, 0>>, <<1, 3, 0>>, <<-1, 1, 2>>}

FreneV1 == {<<1, 1, 1>>, <<1, 1, 0>>, <<2, 3, 0>>, <<0, 0, 0>>, <<0, 0, 2>>, <<2, 1, 0>>}

EulerAC == {-165, -90, -45, 0, 15, 30, 60, 90, 135, 180}

EulerBs == {-90, -75, -45, -15, 0, 30, 60, 90}

\* the rotation matrices handed to rot2euler
Rotations == {euler2rot(A, B, C, TRUE) : A \in EulerAC, B \in EulerBs, C \in EulerAC}

(***************************************************************************)
(* One caller, one call at a time.                                         *)
(***************************************************************************)
Init ==
  /\ pc = "idle"
  /\ op = "none"
  /\ args = <<>>
  /\ ret = <<>>
  /\ tpc = <<>>
  /\ tcall = <<>>
  /\ tframe = <<>>
  /\ tret = <<>>

\* the call runs to its end with one of its outcomes
Finishes(name, a, outcomes) ==
  /\ \E r \in outcomes :
       /\ pc' = "done"
       /\ op' = name
       /\ args' = a
       /\ ret' = r
  /\ UNCHANGED <<tpc, tcall, tframe, tret>>

CallTrMatrix ==
  /\ pc = "idle"
  /\ \E d \in Deltas : Finishes("trMatrix4x4", [delta |-> d], {trMatrix4x4(d)})

CallRotMatrix ==
  /\ pc = "idle"
  /\ \E a \in RotAngles, ax \in Axes :
       Finishes("rotMatrix4x4", [angleDeg |-> a, axis |-> ax], rotMatrix4x4(a, ax))

CallPointsToPlane ==
  /\ pc = "idle"
  /\ \E in \in PlaneInputs :
       Finishes("pointsToPlane", in, pointsToPlane(in.x, in.y, in.z))

CallPoly ==
  /\ pc = "idle"
  /\ \E x0 \in PolyXs, x1 \in PolyXs, x2 \in PolyXs,
        y0 \in PolyYs, y1 \in PolyYs, y2 \in PolyYs :
       Finishes("poly", [x |-> <<x0, x1, x2>>, y |-> <<y0, y1, y2>>],
                poly(x0, x1, x2, y0, y1, y2))

CallGetFreneByPoly ==
  /\ pc = "idle"
  /\ \E p0 \in FreneP0, u1 \in FreneU, u2 \in FreneU, v1 \in FreneV1 :
       Finishes("getFreneByPoly", [p0 |-> p0, u1 |-> u1, u2 |-> u2, v1 |-> v1],
                getFreneByPoly(p0, u1, u2, v1))

CallGetBeltFrame ==
  /\ pc = "idle"
  /\ \E o \in Origins, in \in PlaneInputs :
       Finishes("getBeltFrame", [o |-> o, x |-> in.x, y |-> in.y, z |-> in.z],
                getBeltFrame(o, in.x, in.y, in.z))

CallEuler2Rot ==
  /\ pc = "idle"
  /\ \E A \in EulerAC, B \in EulerBs, C \in EulerAC, is_deg \in BOOLEAN :
       Finishes("euler2rot",
                [A |-> ToUnit(A, is_deg), B |-> ToUnit(B, is_deg), C |-> ToUnit(C, is_deg),
                 is_deg |-> is_deg],
                {Returned(euler2rot(ToUnit(A, is_deg), ToUnit(B, is_deg),
                                    ToUnit(C, is_deg), is_deg), <<>>)})

CallRot2Euler ==
  /\ pc = "idle"
  /\ \E R \in Rotations, is_deg \in BOOLEAN :
       Finishes("rot2euler", [R |-> R, is_deg |-> is_deg],
                {Returned(rot2euler(R, is_deg), <<>>)})

\* the caller takes the result; the next call starts afresh
Finish ==
  /\ pc = "done"
  /\ pc' = "idle"
  /\ op' = "none"
  /\ args' = <<>>
  /\ ret' = <<>>
  /\ UNCHANGED <<tpc, tcall, tframe, tret>>

Next ==
  \/ CallGetFreneByPoly
  \/ CallPointsToPlane
  \/ CallGetBeltFrame
  \/ CallRot2Euler
  \/ CallPoly
  \/ CallTrMatrix
  \/ CallRotMatrix
  \/ CallEuler2Rot
  \/ Finish

Spec == Init /\ [][Next]_vars

\* a caller of the rigid transforms only
NextRigid == CallTrMatrix \/ CallRotMatrix \/ Finish

SpecRigid == Init /\ [][NextRigid]_vars

\* a caller of the fitters and the polynomial Frenet builder only
NextFit == CallGetFreneByPoly \/ CallPointsToPlane \/ CallPoly \/ Finish

SpecFit == Init /\ [][NextFit]_vars

\* a caller of the belt-frame builder only
NextBelt == CallGetBeltFrame \/ Finish

SpecBelt == Init /\ [][NextBelt]_vars

\* a caller of the Euler pair only
NextEuler == CallRot2Euler \/ CallEuler2Rot \/ Finish

SpecEuler == Init /\ [][NextEuler]_vars

(***************************************************************************)
(* Several threads calling at once.  None of the six functions names a     *)
(* static or global object: each reads its arguments (by value or const    *)
(* reference), builds its result in automatic storage of its own           *)
(* activation and returns it by value.                                     *)
(***************************************************************************)
Threads == 1..NThreads

\* the calls the threads draw from, one of each function
ThreadCalls ==
  {[op |-> "trMatrix4x4", args |-> [delta |-> <<220, -940, 20000>>]],
   [op |-> "rotMatrix4x4", args |-> [angleDeg |-> 90, axis |-> "z"]],
   [op |-> "pointsToPlane", args |-> [x |-> <<0, 1, 0>>, y |-> <<0, 0, 1>>, z |-> <<0, 0, 0>>]],
   [op |-> "poly", args |-> [x |-> <<0, 1, 2>>, y |-> <<0, 1, 4>>]],
   [op |-> "getFreneByPoly",
    args |-> [p0 |-> <<1, 1, 0>>, u1 |-> <<0, 0, 0>>, u2 |-> <<2, 4, 0>>, v1 |-> <<1, 1, 1>>]],
   [op |-> "getBeltFrame",
    args |-> [o |-> <<1, 2, 3>>, x |-> <<0, 1, 0>>, y |-> <<0, 0, 1>>, z |-> <<0, 1, 1>>]]}

\* what the call gives when it runs alone
Outcomes(c) ==
  CASE c.op = "trMatrix4x4" -> {trMatrix4x4(c.args.delta)}
    [] c.op = "rotMatrix4x4" -> rotMatrix4x4(c.args.angleDeg, c.args.axis)
    [] c.op = "pointsToPlane" -> pointsToPlane(c.args.x, c.args.y, c.args.z)
    [] c.op = "poly" ->
         poly(c.args.x[1], c.args.x[2], c.args.x[3], c.args.y[1], c.args.y[2], c.args.y[3])
    [] c.op = "getFreneByPoly" ->
         getFreneByPoly(c.args.p0, c.args.u1, c.args.u2, c.args.v1)
    [] c.op = "getBeltFrame" -> getBeltFrame(c.args.o, c.args.x, c.args.y, c.args.z)

\* one storage for the locals of every call, as a function-level static
\* would be, for contrast with the code's automatic variables
SharedFrame(t) == 1

\* the storage that holds the locals of thread t's call: the activation
\* record on t's own stack
FrameOf(t) == t

InitConc ==
  /\ pc = "idle"
  /\ op = "none"
  /\ args = <<>>
  /\ ret = <<>>
  /\ tpc = [t \in Threads |-> "idle"]
  /\ tcall = [t \in Threads |-> <<>>]
  /\ tframe = [f \in Threads |-> <<>>]
  /\ tret = [t \in Threads |-> <<>>]

\* thread t calls: the arguments are bound, nothing is computed yet
Enter(t) ==
  /\ tpc[t] = "idle"
  /\ \E c \in ThreadCalls : tcall' = [tcall EXCEPT ![t] = c]
  /\ tpc' = [tpc EXCEPT ![t] = "entered"]
  /\ UNCHANGED <<pc, op, args, ret, tframe, tret>>

\* the body runs and leaves its result in the call's local storage
Compute(t) ==
  /\ tpc[t] = "entered"
  /\ \E r \in Outcomes(tcall[t]) : tframe' = [tframe EXCEPT ![FrameOf(t)] = r]
  /\ tpc' = [tpc EXCEPT ![t] = "computed"]
  /\ UNCHANGED <<pc, op, args, ret, tcall, tret>>

\* return by value: the caller receives a copy of the local, whose storage
\* ends with the call
Return(t) ==
  /\ tpc[t] = "computed"
  /\ tret' = [tret EXCEPT ![t] = tframe[FrameOf(t)]]
  /\ tframe' = [tframe EXCEPT ![FrameOf(t)] = <<>>]
  /\ tpc' = [tpc EXCEPT ![t] = "returned"]
  /\ UNCHANGED <<pc, op, args, ret, tcall>>

\* the caller is done with the result
Done(t) ==
  /\ tpc[t] = "returned"
  /\ tpc' = [tpc EXCEPT ![t] = "idle"]
  /\ tcall' = [tcall EXCEPT ![t] = <<>>]
  /\ tret' = [tret EXCEPT ![t] = <<>>]
  /\ UNCHANGED <<pc, op, args, ret, tframe>>

NextConc == \E t \in Threads : Enter(t) \/ Compute(t) \/ Return(t) \/ Done(t)

SpecConc == InitConc /\ [][NextConc]_vars

(***************************************************************************)
(* Properties of the rigid transforms (SpecRigid).                         *)
(***************************************************************************)
ValidAxes == {"x", "y", "z"}

RotCalled == pc = "done" /\ op = "rotMatrix4x4"

\* C4: rotMatrix4x4 on a valid axis returns the computed matrix with every
\* entry of absolute value <= EPS replaced by exactly 0 and every other entry
\* unchanged; at multiples of 90 degrees every analytically zero entry is an
\* exact 0; and rotMatrix4x4(90, 'z') times itself is rotMatrix4x4(180, 'z').
C4_RotationSnapping ==
  (RotCalled /\ args.axis \in ValidAxes) =>
    /\ ret.status = "returned"
    /\ \A i \in 1..4, j \in 1..4 :
         /\ Abs(ret.local.raw[i][j]) <= EPS => ret.value[i][j] = 0
         /\ Abs(ret.local.raw[i][j]) > EPS => ret.value[i][j] = ret.local.raw[i][j]
    /\ args.angleDeg % 90 = 0 =>
         \A i \in 1..4, j \in 1..4 :
           RotSwitch(CosFx(args.angleDeg), SinFx(args.angleDeg), args.axis)[i][j] = 0
             => ret.value[i][j] = 0
    /\ (args.angleDeg = 90 /\ args.axis = "z") =>
         \A half \in rotMatrix4x4(180, "z") :
           Product4(ret.value, ret.value) =
             [i \in 1..4 |-> [j \in 1..4 |-> Scale * half.value[i][j]]]

\* rotMatrix4x4(90, 'z') has returned, and an entry computed as a non-zero
\* came back as 0
C4_Witness ==
  /\ RotCalled
  /\ args.angleDeg = 90
  /\ args.axis = "z"
  /\ \E i \in 1..4, j \in 1..4 : ret.local.raw[i][j] # 0 /\ ret.value[i][j] = 0

\* C10: rotMatrix4x4 with an axis character other than 'x', 'y', 'z' reports
\* no error and returns the identity whatever the angle; with a valid axis
\* the row and column of that axis and the fourth row and column are the
\* identity's.
C10_AxisHandling ==
  RotCalled =>
    /\ ret.status = "returned"
    /\ args.axis \notin ValidAxes => ret.value = Identity4
    /\ args.axis \in ValidAxes =>
         \A i \in 1..4 :
           \A k \in {IF args.axis = "x" THEN 1 ELSE IF args.axis = "y" THEN 2 ELSE 3, 4} :
             /\ ret.value[i][k] = Identity4[i][k]
             /\ ret.value[k][i] = Identity4[k][i]

\* rotMatrix4x4(45, 'Z') has returned the identity
C10_Witness ==
  /\ RotCalled
  /\ args.axis = "Z"
  /\ args.angleDeg = 45
  /\ ret.status = "returned"
  /\ ret.value = Identity4

(***************************************************************************)
(* Properties of the fitters and the frame builders.                       *)
(***************************************************************************)
PlaneCalled == pc = "done" /\ op = "pointsToPlane"

FreneCalled == pc = "done" /\ op = "getFreneByPoly"

BeltCalled == pc = "done" /\ op = "getBeltFrame"

\* fewer than 3 points, mismatched lengths, or a singular U
IllPosedPlane(a) ==
  \/ Len(a.x) < 3
  \/ Len(a.y) # Len(a.x)
  \/ Len(a.z) # Len(a.x)
  \/ Det3(NormalU(a.x, a.y, Len(a.x))) = 0

\* two of x0, x1, x2 coincide
IllPosedPoly(a) == a.x[1] = a.x[2] \/ a.x[1] = a.x[3] \/ a.x[2] = a.x[3]

\* C1: pointsToPlane reports an error, and returns no Plane, whenever x, y, z
\* hold fewer than 3 points, have mismatched lengths or give a singular U;
\* poly reports an error, and returns no coefficients, whenever two of
\* x0, x1, x2 coincide.
C1_FittersRejectIllPosedInput ==
  /\ (PlaneCalled /\ IllPosedPlane(args)) => ret.status = "threw"
  /\ (pc = "done" /\ op = "poly" /\ IllPosedPoly(args)) => ret.status = "threw"

\* the three abscissae of the curve points are distinct, so the quadratic
\* through them is determined
CurveDetermined(a) == ~IllPosedPoly([x |-> <<a.u1[1], a.p0[1], a.u2[1]>>])

IsUnit(v) == VSquaredNorm(v) = Rat(1)

\* C2: getFreneByPoly fails with a degenerate-geometry error, and returns no
\* frame, whenever v1 = p0 or tanu is parallel to tanv; no frame it returns
\* has a zero-length or NaN axis.  Stated over determined curves, where the
\* only degeneracy is that of the tangents.
C2_FreneRejectsDegenerateGeometry ==
  (FreneCalled /\ CurveDetermined(args)) =>
    /\ args.v1 = args.p0 => ret.status = "threw"
    /\ ret.status = "returned" =>
         /\ ~VIsZero(VCross(ret.local.tanu, ret.local.tanv))
         /\ \A axis \in {ret.value.t, ret.value.b, ret.value.n} :
              ~VIsZero(axis) /\ ~IsNaN(axis.r)

\* unit length, pairwise orthogonal, tangent x binormal = normal
Orthonormal(t, b, n) ==
  /\ IsUnit(t)
  /\ IsUnit(b)
  /\ IsUnit(n)
  /\ VDot(t, b).s = 0
  /\ VDot(b, n).s = 0
  /\ VDot(n, t).s = 0
  /\ VCross(t, b) = n

\* C3: every frame returned by getFreneByPoly or getBeltFrame, on any input,
\* has a triad (tangent, binormal, normal) of unit-length, pairwise-orthogonal
\* vectors with tangent x binormal = normal.  For getFreneByPoly stated over
\* determined curves.
C3_FramesOrthonormal ==
  /\ (FreneCalled /\ CurveDetermined(args) /\ ret.status = "returned") =>
       Orthonormal(ret.value.t, ret.value.b, ret.value.n)
  /\ (BeltCalled /\ ret.status = "returned") =>
       Orthonormal(ret.local.t, ret.local.b, ret.local.n)

\* C7: every Plane pointsToPlane returns for a finite regression solution
\* (AA, BB, DD), here one of a well-posed fit, has C > 0, A^2 + B^2 + C^2 = 1, and A, B, D zero exactly when
\* AA, BB, DD is zero and of the opposite sign otherwise.
C7_PlaneSignConvention ==
  (PlaneCalled /\ ret.status = "returned" /\ ~IllPosedPlane(args)
     /\ IsFinite(ret.value.AA) /\ IsFinite(ret.value.BB) /\ IsFinite(ret.value.DD)) =>
    /\ ret.value.C.s > 0
    /\ RAdd(RAdd(ret.value.A.q, ret.value.B.q), ret.value.C.q) = Rat(1)
    /\ ret.value.A.s = -RSign(ret.value.AA)
    /\ ret.value.B.s = -RSign(ret.value.BB)
    /\ ret.value.D.s = -RSign(ret.value.DD)

\* C8: getBeltFrame returns both the 6-vector and the 4x4 pose; the 6-vector's
\* X, Y, Z are the pose's translation column and the supplied origin, its
\* A, B, C are the Euler angles of the pose's own rotation block, and the
\* pose has columns [tangent, binormal, normal, origin] over the row 0 0 0 1.
\* Stated over well-posed fits.
C8_BeltReturnsBothRepresentations ==
  (BeltCalled /\ ret.status = "returned" /\ ~IllPosedPlane(args)) =>
    /\ DOMAIN ret.value = {"frame", "transform"}
    /\ \A i \in 1..3 :
         /\ ret.value.frame[i] = args.o[i]
         /\ ret.value.transform[i][4] = VComp(VInt(args.o), i)
    /\ ret.value.frame[4] = EulerA(FixBlock(ret.value.transform))
    /\ ret.value.frame[5] = EulerB(FixBlock(ret.value.transform))
    /\ ret.value.frame[6] = EulerC(FixBlock(ret.value.transform))
    /\ ret.value.transform = BeltPose(ret.local.t, ret.local.b, ret.local.n, args.o)
    /\ ret.value.transform[4] = <<ScZero, ScZero, ScZero, ScOne>>

\* C9: for a unit normal n, getBeltFrame takes world X as helper when
\* |n.x| < 0.9 and world Y otherwise; the projection helper - (helper.n)n has
\* squared length of at least 0.19, so it is never the zero vector; and the
\* tangent points against the helper, tangent.helper < 0.
C9_HelperNeverParallel ==
  (BeltCalled /\ ret.status = "returned" /\ IsUnit(ret.local.n)) =>
    /\ ret.local.helper =
         IF RLess(VComp(ret.local.n, 1).q, <<81, 100>>) THEN UnitX ELSE UnitY
    /\ RLeq(<<19, 100>>, VSquaredNorm(ret.local.proj))
    /\ ~VIsZero(ret.local.proj)
    /\ VDot(ret.local.t, ret.local.helper).s < 0

\* getBeltFrame has returned for a unit normal with |n.x| >= 0.9: the helper
\* was world Y and the tangent points against it
C9_Witness ==
  /\ BeltCalled
  /\ ret.status = "returned"
  /\ IsUnit(ret.local.n)
  /\ ~RLess(VComp(ret.local.n, 1).q, <<81, 100>>)
  /\ ret.local.helper = UnitY
  /\ VDot(ret.local.t, ret.local.helper).s < 0

(***************************************************************************)
(* Properties of concurrent calls (SpecConc).                              *)
(***************************************************************************)
\* C5: under any interleaving of calls from several threads every call
\* returns a result that the same call gives when it runs alone, and from its
\* entry to the caller's release of the result its arguments stay as passed.
C5_ConcurrentCallsIndependent ==
  /\ [](\A t \in Threads : tpc[t] = "returned" => tret[t] \in Outcomes(tcall[t]))
  /\ [][\A t \in Threads :
          (tpc[t] # "idle" /\ tpc'[t] # "idle") => tcall'[t] = tcall[t]]_vars

\* one thread has received its result while another, running a different
\* call, holds a computed result that it has not yet returned
C5_Witness ==
  \E t \in Threads, u \in Threads :
    /\ t # u
    /\ tpc[t] = "returned"
    /\ tpc[u] = "computed"
    /\ tcall[t] # tcall[u]
    /\ tret[t] \in Outcomes(tcall[t])

(***************************************************************************)
(* Properties of the Euler pair (SpecEuler).                               *)
(***************************************************************************)
Rot2EulerCalled == pc = "done" /\ op = "rot2euler"

====
